---- MODULE Spec2Model ----
(***************************************************************************)
(* Model of log_exporter.py and opensearch_utils.py: the main block, the   *)
(* three export modes (one_time, continuous, combined), the parser, the    *)
(* bulk buffer and the bulk send, with a writer that appends whole lines   *)
(* to the log file (tests/append_to_log_runtime.py).                       *)
(*                                                                         *)
(* A line of the file is modelled by its kind:                             *)
(*   "obj"   a JSON value other than null (json.loads returns a value)     *)
(*   "null"  the JSON literal null (valid JSON; json.loads returns None)   *)
(*   "bad"   text that is not JSON (json.loads raises JSONDecodeError)     *)
(*   "blank" an empty or whitespace-only line                              *)
(* The document parsed from line i of the file is the number i, so every   *)
(* record is distinguishable and carries its place in the file.  Time is   *)
(* counted in whole ticks.                                                 *)
(***************************************************************************)
EXTENDS Integers, Sequences, FiniteSets, TLC

\* ---- bounds of the model
MaxLines == 3           \* lines the file ever holds
MaxInitial == 2         \* lines already in the file at program start
MaxBatch == 3           \* BATCH_SIZE ranges over 1..MaxBatch
MaxTime == 6            \* the clock stops at MaxTime
FlushInterval == 3      \* flush_interval, in ticks
SleepSec == 1           \* sleep_sec, in ticks
MaxStartDelay == 8      \* scenario 2: latest tick of the first append
ScenarioEnd == 50       \* scenario 2: the clock stops at ScenarioEnd

VARIABLES
    OPENSEARCH_HOST,    \* os.getenv('OPENSEARCH_HOST'), or NoValue
    OPENSEARCH_INDEX,   \* os.getenv('OPENSEARCH_INDEX'), or NoValue
    LOG_FILE_PATH,      \* os.getenv('LOG_FILE_PATH'), NoValue or ""
    EXPORT_MODE,        \* os.getenv('EXPORT_MODE', 'one_time').lower()
    BATCH_SIZE,         \* int(os.getenv('BATCH_SIZE', 100))
    flush_interval,     \* parameter of the continuous and combined exports
    sleep_sec,          \* parameter of the continuous and combined exports
    file_exists,        \* whether LOG_FILE_PATH names an existing file
    file,               \* the lines of the log file, by kind
    f_open,             \* the program has opened the file
    f_pos,              \* lines of the file the reader has consumed
    f_start,            \* the reader's position right after the open
    bulk_data,          \* the bulk buffer: action entry, document, ...
    processed_lines,    \* the counter of the export functions
    last_flush,         \* time of the last flush
    now,                \* the clock, time.time()
    pc,                 \* where the program is
    exit_status,        \* "running", "zero" or "nonzero"
    calls,              \* every call made on the OpenSearch client, in order
    script,             \* scenario 2: the ticks at which the writer appends
    horizon,            \* the tick at which the clock stops
    exc,                \* the exception that ended the export, or "none"
    diagnostics         \* the lines parse_log_line logged as not decodable

vars == << OPENSEARCH_HOST, OPENSEARCH_INDEX, LOG_FILE_PATH, EXPORT_MODE,
           BATCH_SIZE, flush_interval, sleep_sec, file_exists, file, f_open,
           f_pos, f_start, bulk_data, processed_lines, last_flush, now, pc,
           exit_status, calls, script, horizon, exc, diagnostics >>

config == << OPENSEARCH_HOST, OPENSEARCH_INDEX, LOG_FILE_PATH, EXPORT_MODE,
             BATCH_SIZE, flush_interval, sleep_sec, file_exists >>

NoValue == "<None>"
None == -1              \* parse_log_line's "no record"
ActionEntry == 0        \* the bulk action {"index": {"_index": index_name}}

Kinds == {"obj", "null", "bad", "blank"}
Modes == {"one_time", "continuous", "combined"}
BulkOutcomes == {"ok", "errors", "raise"}

RECURSIVE SeqsUpTo(_, _)
SeqsUpTo(S, n) ==
    IF n = 0 THEN {<< >>}
    ELSE LET shorter == SeqsUpTo(S, n - 1)
         IN  shorter \cup {Append(s, x) : s \in {t \in shorter : Len(t) = n - 1}, x \in S}

\* ---- pure functions of the code

\* json.loads inside parse_log_line, on line i of kind k
parse_log_line(k, i) == IF k = "obj" THEN i ELSE None

\* the log after parse_log_line ran on line i of kind k: json.loads raises
\* JSONDecodeError on text that is not JSON and on an empty string, and the
\* handler logs "Error decoding JSON in line: ..."
parse_log_line_logged(lg, k, i) ==
    IF k \in {"bad", "blank"} THEN Append(lg, i) ELSE lg

\* line.strip() leaves an empty string
StripsToEmpty(k) == k = "blank"

\* mutant: the new entry goes to the front of the buffer
add_to_bulk_data_Front(bd, log_entry) == << ActionEntry, log_entry >> \o bd

\* mutant: only the document is appended, without its action entry
add_to_bulk_data_NoAction(bd, log_entry) == bd \o << log_entry >>

add_to_bulk_data(bd, log_entry) == bd \o << ActionEntry, log_entry >>

\* the documents of a bulk body, in order
Docs(body) == SelectSeq(body, LAMBDA e : e # ActionEntry)

\* send_to_opensearch: the calls log after the call
\* client.bulk(body=data): the call is logged with its outcome and with the
\* trigger and the phase that the log message before the call names
client_bulk(cs, data, res, why, phase) ==
    Append(cs, [op |-> "bulk", body |-> data, res |-> res, why |-> why,
                phase |-> phase])

\* send_to_opensearch: the calls log after the call
send_to_opensearch(cs, data, res, why, phase) ==
    IF data = << >> THEN cs
    ELSE client_bulk(cs, data, res, why, phase)

\* mutant: a batch whose bulk call raised is kept in the buffer
AfterSend_Requeue(bd, res) == IF res = "raise" THEN bd ELSE << >>

\* mutant: the record that triggered the flush stays in the buffer
AfterSend_KeepLast(bd, res) == SubSeq(bd, Len(bd) - 1, Len(bd))

\* "bulk_data = []" after send_to_opensearch returned, whatever the outcome
AfterSend(bd, res) == << >>

ClientCall(cs, op, res) ==
    Append(cs, [op |-> op, body |-> << >>, res |-> res, why |-> "",
                phase |-> "main"])

\* mutant: the flush decision without the interval trigger
FlushTrigger_CountOnly(bd, pl, t, lf) ==
    IF pl % BATCH_SIZE = 0 THEN "count" ELSE "none"

\* mutant: the interval is looked at before the count
FlushTrigger_IntervalFirst(bd, pl, t, lf) ==
    IF bd # << >> /\ (t - lf) >= flush_interval THEN "interval"
    ELSE IF pl % BATCH_SIZE = 0 THEN "count"
    ELSE "none"

\* the flush decision after a record is added (continuous and combined)
FlushTrigger(bd, pl, t, lf) ==
    IF pl % BATCH_SIZE = 0 THEN "count"
    ELSE IF bd # << >> /\ (t - lf) >= flush_interval THEN "interval"
    ELSE "none"

\* ---- initial states

Init ==
    /\ OPENSEARCH_HOST \in {NoValue, "localhost"}
    /\ OPENSEARCH_INDEX \in {NoValue, "logs"}
    /\ LOG_FILE_PATH \in {NoValue, "", "app.jsonl"}
    /\ EXPORT_MODE \in Modes \cup {"bogus"}
    /\ BATCH_SIZE \in 1..MaxBatch
    /\ flush_interval = FlushInterval
    /\ sleep_sec = SleepSec
    /\ file_exists \in BOOLEAN
    /\ file \in (IF file_exists THEN SeqsUpTo(Kinds, MaxInitial) ELSE {<< >>})
    /\ f_open = FALSE
    /\ f_pos = 0
    /\ f_start = 0
    /\ bulk_data = << >>
    /\ processed_lines = 0
    /\ last_flush = 0
    /\ now = 0
    /\ pc = "main"
    /\ exit_status = "running"
    /\ calls = << >>
    /\ script = << >>
    /\ horizon = MaxTime
    /\ exc = "none"
    /\ diagnostics = << >>

\* ---- how a function or the program ends

\* exit(1): SystemExit leaves the program with a non-zero status
Exit1 ==
    /\ pc' = "exited"
    /\ exit_status' = "nonzero"

\* an export function returns to the main block, which logs "Log exporter
\* finished." and ends with status 0; the function's locals are gone
Return ==
    /\ pc' = "finished"
    /\ exit_status' = "zero"

\* ---- the main block

MainHost ==
    /\ pc = "main"
    /\ IF OPENSEARCH_HOST = NoValue
       THEN Exit1
       ELSE pc' = "test_connection" /\ UNCHANGED exit_status
    /\ UNCHANGED << config, f_start, file, f_open, f_pos, bulk_data, processed_lines,
                    last_flush, now, calls, script, horizon, exc, diagnostics >>

\* test_opensearch_connection: client.info()
MainTestConnection ==
    /\ pc = "test_connection"
    /\ \E res \in {"ok", "raise"} :
        /\ calls' = ClientCall(calls, "info", res)
        /\ IF res = "raise"
           THEN Exit1
           ELSE pc' = "check_index" /\ UNCHANGED exit_status
    /\ UNCHANGED << config, f_start, file, f_open, f_pos, bulk_data, processed_lines,
                    last_flush, now, script, horizon, exc, diagnostics >>

MainIndex ==
    /\ pc = "check_index"
    /\ IF OPENSEARCH_INDEX = NoValue
       THEN Exit1
       ELSE pc' = "create_index" /\ UNCHANGED exit_status
    /\ UNCHANGED << config, f_start, file, f_open, f_pos, bulk_data, processed_lines,
                    last_flush, now, calls, script, horizon, exc, diagnostics >>

\* create_index_if_not_exists: client.indices.exists, then client.indices.create
MainCreateIndex ==
    /\ pc = "create_index"
    /\ \E ex \in {"true", "false", "raise"} :
        LET c1 == ClientCall(calls, "indices.exists", ex) IN
        CASE ex = "true"  -> calls' = c1 /\ pc' = "dispatch" /\ UNCHANGED exit_status
          [] ex = "raise" -> calls' = c1 /\ Exit1
          [] ex = "false" ->
                \E cr \in {"ok", "raise"} :
                    /\ calls' = ClientCall(c1, "indices.create", cr)
                    /\ IF cr = "raise"
                       THEN Exit1
                       ELSE pc' = "dispatch" /\ UNCHANGED exit_status
    /\ UNCHANGED << config, f_start, file, f_open, f_pos, bulk_data, processed_lines,
                    last_flush, now, script, horizon, exc, diagnostics >>

MainDispatch ==
    /\ pc = "dispatch"
    /\ IF EXPORT_MODE \in Modes
       THEN pc' = EXPORT_MODE /\ UNCHANGED exit_status
       ELSE Exit1
    /\ UNCHANGED << config, f_start, file, f_open, f_pos, bulk_data, processed_lines,
                    last_flush, now, calls, script, horizon, exc, diagnostics >>

\* ---- one_time: export_log_to_opensearch

OneTimeStart ==
    /\ pc = "one_time"
    /\ bulk_data' = << >>
    /\ processed_lines' = 0
    /\ IF LOG_FILE_PATH \in {NoValue, ""}
       THEN Return /\ UNCHANGED << f_open, exc >>
       ELSE IF OPENSEARCH_INDEX = NoValue
       THEN Exit1 /\ UNCHANGED << f_open, exc >>
       ELSE IF ~file_exists
       THEN Return /\ exc' = "FileNotFoundError" /\ UNCHANGED f_open
       ELSE pc' = "one_time_loop" /\ f_open' = TRUE /\ UNCHANGED << exit_status, exc >>
    /\ UNCHANGED << config, f_start, file, f_pos, last_flush, now, calls, script, horizon, diagnostics >>

\* one iteration of "for line in yield_log_lines(LOG_FILE_PATH)"
OneTimeLine ==
    /\ pc = "one_time_loop"
    /\ f_pos < Len(file)
    /\ LET i == f_pos + 1
           k == file[i]
           log_entry == parse_log_line(k, i)
           bd == add_to_bulk_data(bulk_data, log_entry)
           pl == processed_lines + 1
       IN  /\ f_pos' = i
           /\ diagnostics' = IF StripsToEmpty(k) THEN diagnostics
                             ELSE parse_log_line_logged(diagnostics, k, i)
           /\ IF StripsToEmpty(k) \/ log_entry = None
              THEN UNCHANGED << bulk_data, processed_lines, calls >>
              ELSE /\ processed_lines' = pl
                   /\ IF pl % BATCH_SIZE = 0
                      THEN \E res \in BulkOutcomes :
                                /\ calls' = send_to_opensearch(calls, bd, res, "count", "one_time")
                                /\ bulk_data' = AfterSend(bd, res)
                      ELSE /\ bulk_data' = bd
                           /\ UNCHANGED calls
    /\ UNCHANGED << config, f_start, file, f_open, last_flush, now, pc, exit_status,
                    script, horizon, exc >>

\* mutant: the finally block calls client.bulk without looking at the buffer
OneTimeEOF_Unguarded ==
    /\ pc = "one_time_loop"
    /\ f_pos = Len(file)
    /\ \E res \in BulkOutcomes :
            calls' = client_bulk(calls, bulk_data, res, "residual", "one_time")
    /\ bulk_data' = << >>
    /\ Return
    /\ UNCHANGED << config, f_start, file, f_open, f_pos, processed_lines, last_flush,
                    now, script, horizon, exc, diagnostics >>

\* the file is exhausted: the finally block, then the function returns
OneTimeEOF ==
    /\ pc = "one_time_loop"
    /\ f_pos = Len(file)
    /\ IF bulk_data # << >>
       THEN \E res \in BulkOutcomes :
                calls' = send_to_opensearch(calls, bulk_data, res, "residual", "one_time")
       ELSE UNCHANGED calls
    /\ bulk_data' = << >>
    /\ Return
    /\ UNCHANGED << config, f_start, file, f_open, f_pos, processed_lines, last_flush,
                    now, script, horizon, exc, diagnostics >>

\* mutant: a read error ends the function without the finally block
OneTimeReadError_NoFinally ==
    /\ pc = "one_time_loop"
    /\ exc' = "Exception"
    /\ Return
    /\ UNCHANGED << config, f_start, file, f_open, f_pos, bulk_data, processed_lines,
                    last_flush, now, calls, script, horizon, diagnostics >>

\* reading the file raises an exception other than FileNotFoundError:
\* "except Exception" logs it, the finally block sends what is buffered,
\* and the function returns
OneTimeReadError ==
    /\ pc = "one_time_loop"
    /\ exc' = "Exception"
    /\ IF bulk_data # << >>
       THEN \E res \in BulkOutcomes :
                calls' = send_to_opensearch(calls, bulk_data, res, "residual", "one_time")
       ELSE UNCHANGED calls
    /\ bulk_data' = << >>
    /\ Return
    /\ UNCHANGED << config, f_start, file, f_open, f_pos, processed_lines,
                    last_flush, now, script, horizon, diagnostics >>

\* ---- continuous: continuous_export_log_to_opensearch over tail_log_lines

\* mutant: the generator reads from the beginning of the file, as
\* yield_log_lines does
ContStart_NoSeek ==
    /\ pc = "continuous"
    /\ bulk_data' = << >>
    /\ processed_lines' = 0
    /\ last_flush' = now
    /\ IF LOG_FILE_PATH \in {NoValue, ""}
       THEN Return /\ UNCHANGED << f_open, f_pos, exc >>
       ELSE IF OPENSEARCH_INDEX = NoValue
       THEN Exit1 /\ UNCHANGED << f_open, f_pos, exc >>
       ELSE IF ~file_exists
       THEN Return /\ exc' = "FileNotFoundError" /\ UNCHANGED << f_open, f_pos >>
       ELSE /\ pc' = "cont_loop"
            /\ f_open' = TRUE
            /\ f_pos' = 0
            /\ UNCHANGED << exit_status, exc >>
    /\ f_start' = f_pos'
    /\ UNCHANGED << config, file, now, calls, script, horizon, diagnostics >>

ContStart ==
    /\ pc = "continuous"
    /\ bulk_data' = << >>
    /\ processed_lines' = 0
    /\ last_flush' = now
    /\ IF LOG_FILE_PATH \in {NoValue, ""}
       THEN Return /\ UNCHANGED << f_open, f_pos, exc >>
       ELSE IF OPENSEARCH_INDEX = NoValue
       THEN Exit1 /\ UNCHANGED << f_open, f_pos, exc >>
       ELSE IF ~file_exists
       THEN Return /\ exc' = "FileNotFoundError" /\ UNCHANGED << f_open, f_pos >>
       ELSE /\ pc' = "cont_loop"
            /\ f_open' = TRUE
            /\ f_pos' = Len(file)                          \* f.seek(0, os.SEEK_END)
            /\ UNCHANGED << exit_status, exc >>
    /\ f_start' = f_pos'
    /\ UNCHANGED << config, file, now, calls, script, horizon, diagnostics >>

\* readline returned a line: one iteration of the for loop
ContLine ==
    /\ pc = "cont_loop"
    /\ f_pos < Len(file)
    /\ LET i == f_pos + 1
           k == file[i]
           log_entry == parse_log_line(k, i)
           bd == add_to_bulk_data(bulk_data, log_entry)
           pl == processed_lines + 1
           trigger == FlushTrigger(bd, pl, now, last_flush)
       IN  /\ f_pos' = i
           /\ diagnostics' = parse_log_line_logged(diagnostics, k, i)
           /\ IF log_entry = None
              THEN UNCHANGED << bulk_data, processed_lines, calls, last_flush >>
              ELSE /\ processed_lines' = pl
                   /\ IF trigger # "none"
                      THEN /\ \E res \in BulkOutcomes :
                                /\ calls' = send_to_opensearch(calls, bd, res, trigger, "continuous")
                                /\ bulk_data' = AfterSend(bd, res)
                           /\ last_flush' = now
                      ELSE /\ bulk_data' = bd
                           /\ UNCHANGED << calls, last_flush >>
    /\ UNCHANGED << config, f_start, file, f_open, now, pc, exit_status, script, horizon, exc >>

\* the reader does not sleep past a scripted append that is due
WriterNotLate ==
    IF Len(file) < Len(script) THEN now <= script[Len(file) + 1] ELSE TRUE

\* readline returned nothing: time.sleep(sleep_sec) inside tail_log_lines
ContIdle ==
    /\ pc = "cont_loop"
    /\ f_pos = Len(file)
    /\ WriterNotLate
    /\ now + sleep_sec <= horizon
    /\ now' = now + sleep_sec
    /\ UNCHANGED << config, f_start, file, f_open, f_pos, bulk_data, processed_lines,
                    last_flush, pc, exit_status, calls, script, horizon, exc, diagnostics >>

\* f.readline() in tail_log_lines raises: "except Exception" logs it and the
\* function ends; nothing is sent
ContReadError ==
    /\ pc = "cont_loop"
    /\ exc' = "Exception"
    /\ Return
    /\ UNCHANGED << config, f_start, file, f_open, f_pos, bulk_data, processed_lines,
                    last_flush, now, calls, script, horizon, diagnostics >>

\* ---- combined: combined_export_log_to_opensearch

\* mutant: the open creates a missing file instead of raising
CombStart_Create ==
    /\ pc = "combined"
    /\ IF LOG_FILE_PATH \in {NoValue, ""}
       THEN Return /\ UNCHANGED << f_open, bulk_data, processed_lines, last_flush >>
       ELSE IF OPENSEARCH_INDEX = NoValue
       THEN Exit1 /\ UNCHANGED << f_open, bulk_data, processed_lines, last_flush >>
       ELSE /\ bulk_data' = << >>
            /\ processed_lines' = 0
            /\ last_flush' = now
            /\ pc' = "comb_drain" /\ f_open' = TRUE /\ UNCHANGED exit_status
    /\ UNCHANGED << config, f_start, file, f_pos, now, calls, script, horizon, exc, diagnostics >>

CombStart ==
    /\ pc = "combined"
    /\ IF LOG_FILE_PATH \in {NoValue, ""}
       THEN Return /\ UNCHANGED << f_open, bulk_data, processed_lines, last_flush, exc >>
       ELSE IF OPENSEARCH_INDEX = NoValue
       THEN Exit1 /\ UNCHANGED << f_open, bulk_data, processed_lines, last_flush, exc >>
       ELSE /\ bulk_data' = << >>
            /\ processed_lines' = 0
            /\ last_flush' = now
            /\ IF ~file_exists
               THEN Return /\ exc' = "FileNotFoundError" /\ UNCHANGED f_open
               ELSE pc' = "comb_drain" /\ f_open' = TRUE /\ UNCHANGED << exit_status, exc >>
    /\ UNCHANGED << config, f_start, file, f_pos, now, calls, script, horizon, diagnostics >>

\* one iteration of the first loop with a line read
CombDrainLine ==
    /\ pc = "comb_drain"
    /\ f_pos < Len(file)
    /\ LET i == f_pos + 1
           k == file[i]
           log_entry == parse_log_line(k, i)
           bd == add_to_bulk_data(bulk_data, log_entry)
           pl == processed_lines + 1
           trigger == FlushTrigger(bd, pl, now, last_flush)
       IN  /\ f_pos' = i
           /\ diagnostics' = IF StripsToEmpty(k) THEN diagnostics
                             ELSE parse_log_line_logged(diagnostics, k, i)
           /\ IF StripsToEmpty(k) \/ log_entry = None
              THEN UNCHANGED << bulk_data, processed_lines, calls, last_flush >>
              ELSE /\ processed_lines' = pl
                   /\ IF trigger # "none"
                      THEN /\ \E res \in BulkOutcomes :
                                /\ calls' = send_to_opensearch(calls, bd, res, trigger, "initial")
                                /\ bulk_data' = AfterSend(bd, res)
                           /\ last_flush' = now
                      ELSE /\ bulk_data' = bd
                           /\ UNCHANGED << calls, last_flush >>
    /\ UNCHANGED << config, f_start, file, f_open, now, pc, exit_status, script, horizon, exc >>

\* readline returned nothing: break out of the first loop
CombDrainEOF ==
    /\ pc = "comb_drain"
    /\ f_pos = Len(file)
    /\ pc' = "comb_residual"
    /\ UNCHANGED << config, f_start, file, f_open, f_pos, bulk_data, processed_lines,
                    last_flush, now, exit_status, calls, script, horizon, exc, diagnostics >>

\* mutant: the tailing phase starts at the end of the file, as tail_log_lines
\* does, instead of continuing from the position the drain reached
CombResidual_SeekEnd ==
    /\ pc = "comb_residual"
    /\ IF bulk_data # << >>
       THEN \E res \in BulkOutcomes :
                /\ calls' = send_to_opensearch(calls, bulk_data, res, "residual", "initial")
                /\ bulk_data' = AfterSend(bulk_data, res)
       ELSE UNCHANGED << calls, bulk_data >>
    /\ last_flush' = now
    /\ pc' = "comb_tail"
    /\ f_pos' = Len(file)
    /\ UNCHANGED << config, f_start, file, f_open, processed_lines, now,
                    exit_status, script, horizon, exc, diagnostics >>

\* mutant: the switch to tailing keeps the partial batch in the buffer
CombResidual_Keep ==
    /\ pc = "comb_residual"
    /\ last_flush' = now
    /\ pc' = "comb_tail"
    /\ UNCHANGED << config, f_start, file, f_open, f_pos, bulk_data, processed_lines,
                    now, exit_status, calls, script, horizon, exc, diagnostics >>

\* flush what remains after the initial export, then switch to tailing on
\* the same file handle
CombResidual ==
    /\ pc = "comb_residual"
    /\ IF bulk_data # << >>
       THEN \E res \in BulkOutcomes :
                /\ calls' = send_to_opensearch(calls, bulk_data, res, "residual", "initial")
                /\ bulk_data' = AfterSend(bulk_data, res)
       ELSE UNCHANGED << calls, bulk_data >>
    /\ last_flush' = now
    /\ pc' = "comb_tail"
    /\ UNCHANGED << config, f_start, file, f_open, f_pos, processed_lines, now,
                    exit_status, script, horizon, exc, diagnostics >>

\* one iteration of the second loop with a line read
CombTailLine ==
    /\ pc = "comb_tail"
    /\ f_pos < Len(file)
    /\ LET i == f_pos + 1
           k == file[i]
           log_entry == parse_log_line(k, i)
           bd == add_to_bulk_data(bulk_data, log_entry)
           pl == processed_lines + 1
           trigger == FlushTrigger(bd, pl, now, last_flush)
       IN  /\ f_pos' = i
           /\ diagnostics' = IF StripsToEmpty(k) THEN diagnostics
                             ELSE parse_log_line_logged(diagnostics, k, i)
           /\ IF StripsToEmpty(k) \/ log_entry = None
              THEN UNCHANGED << bulk_data, processed_lines, calls, last_flush >>
              ELSE /\ processed_lines' = pl
                   /\ IF trigger # "none"
                      THEN /\ \E res \in BulkOutcomes :
                                /\ calls' = send_to_opensearch(calls, bd, res, trigger, "tailing")
                                /\ bulk_data' = AfterSend(bd, res)
                           /\ last_flush' = now
                      ELSE /\ bulk_data' = bd
                           /\ UNCHANGED << calls, last_flush >>
    /\ UNCHANGED << config, f_start, file, f_open, now, pc, exit_status, script, horizon, exc >>

\* mutant: the idle branch only sleeps, as in tail_log_lines
CombTailIdle_NoFlush ==
    /\ pc = "comb_tail"
    /\ f_pos = Len(file)
    /\ now + sleep_sec <= horizon
    /\ now' = now + sleep_sec
    /\ UNCHANGED << config, f_start, file, f_open, f_pos, bulk_data, processed_lines,
                    last_flush, pc, exit_status, calls, script, horizon, exc, diagnostics >>

\* one iteration of the second loop with nothing to read: sleep, then the
\* idle flush check
CombTailIdle ==
    /\ pc = "comb_tail"
    /\ f_pos = Len(file)
    /\ now + sleep_sec <= horizon
    /\ now' = now + sleep_sec
    /\ IF bulk_data # << >> /\ (now' - last_flush) >= flush_interval
       THEN /\ \E res \in BulkOutcomes :
                /\ calls' = send_to_opensearch(calls, bulk_data, res, "idle", "tailing")
                /\ bulk_data' = AfterSend(bulk_data, res)
            /\ last_flush' = now'
       ELSE UNCHANGED << bulk_data, calls, last_flush >>
    /\ UNCHANGED << config, f_start, file, f_open, f_pos, processed_lines, pc,
                    exit_status, script, horizon, exc, diagnostics >>

\* mutant: the handler of combined mode sends what is buffered, as the
\* finally block of one_time does
CombReadError_Flush ==
    /\ pc \in {"comb_drain", "comb_tail"}
    /\ exc' = "Exception"
    /\ IF bulk_data # << >>
       THEN \E res \in BulkOutcomes :
                calls' = send_to_opensearch(calls, bulk_data, res, "residual", "tailing")
       ELSE UNCHANGED calls
    /\ Return
    /\ UNCHANGED << config, f_start, file, f_open, f_pos, bulk_data, processed_lines,
                    last_flush, now, script, horizon, diagnostics >>

\* f.readline() raises in the first or in the second loop: "except
\* Exception" logs it and the function ends; nothing is sent
CombReadError ==
    /\ pc \in {"comb_drain", "comb_tail"}
    /\ exc' = "Exception"
    /\ Return
    /\ UNCHANGED << config, f_start, file, f_open, f_pos, bulk_data, processed_lines,
                    last_flush, now, calls, script, horizon, diagnostics >>

\* ---- the environment

Tailing == pc \in {"cont_loop", "comb_drain", "comb_residual", "comb_tail"}

\* a writer appends one whole line (tests/append_to_log_runtime.py)
AppendLine ==
    /\ Tailing
    /\ Len(file) < MaxLines
    /\ \E k \in Kinds : file' = Append(file, k)
    /\ UNCHANGED << config, f_start, f_open, f_pos, bulk_data, processed_lines,
                    last_flush, now, pc, exit_status, calls, script, horizon, exc, diagnostics >>

\* time passes while the program computes, reads or waits for the sink
Elapse ==
    /\ Tailing
    /\ now < horizon
    /\ now' = now + 1
    /\ UNCHANGED << config, f_start, file, f_open, f_pos, bulk_data, processed_lines,
                    last_flush, pc, exit_status, calls, script, horizon, exc, diagnostics >>

\* ---- specifications

Program ==
    \/ MainHost \/ MainTestConnection \/ MainIndex \/ MainCreateIndex
    \/ MainDispatch
    \/ OneTimeStart \/ OneTimeLine \/ OneTimeEOF \/ OneTimeReadError
    \/ ContStart \/ ContLine \/ ContIdle \/ ContReadError
    \/ CombStart \/ CombDrainLine \/ CombDrainEOF \/ CombResidual
    \/ CombTailLine \/ CombTailIdle \/ CombReadError

\* any timing: the clock may advance between any two steps
Next == Program \/ AppendLine \/ Elapse

Spec == Init /\ [][Next]_vars

\* timed: steps take no time, the clock advances only in time.sleep
NextTimed == Program \/ AppendLine

SpecTimed == Init /\ [][NextTimed]_vars

\* ---- scenario 2 of the spec: continuous mode on an empty file, batch size
\* 2, flush interval 5 s, poll interval 0.5 s; one tick is 0.5 s.  Line 1 is
\* appended d0 ticks after the start, line 2 two seconds later, line 3 ten
\* seconds after line 2.

InitScenario2 ==
    /\ OPENSEARCH_HOST = "localhost"
    /\ OPENSEARCH_INDEX = "logs"
    /\ LOG_FILE_PATH = "app.jsonl"
    /\ EXPORT_MODE = "continuous"
    /\ BATCH_SIZE = 2
    /\ flush_interval = 10
    /\ sleep_sec = 1
    /\ file_exists = TRUE
    /\ file = << >>
    /\ f_open = FALSE
    /\ f_pos = 0
    /\ f_start = 0
    /\ bulk_data = << >>
    /\ processed_lines = 0
    /\ last_flush = 0
    /\ now = 0
    /\ pc = "continuous"
    /\ exit_status = "running"
    /\ calls = ClientCall(ClientCall(<< >>, "info", "ok"), "indices.exists", "true")
    /\ \E d0 \in 0..MaxStartDelay : script = << d0, d0 + 4, d0 + 24 >>
    /\ horizon = ScenarioEnd
    /\ exc = "none"
    /\ diagnostics = << >>

\* the writer appends the next line of the script when its tick has come
ScriptAppend ==
    /\ pc = "cont_loop"
    /\ Len(file) < Len(script)
    /\ now >= script[Len(file) + 1]
    /\ file' = Append(file, "obj")
    /\ UNCHANGED << config, f_start, f_open, f_pos, bulk_data, processed_lines,
                    last_flush, now, pc, exit_status, calls, script, horizon, exc, diagnostics >>

NextScenario2 == ContStart \/ ContLine \/ ContIdle \/ ScriptAppend

SpecScenario2 == InitScenario2 /\ [][NextScenario2]_vars

\* ---- what the properties observe

\* the bulk calls that reached the client, in call order
BulkCalls == SelectSeq(calls, LAMBDA c : c.op = "bulk")

RECURSIVE Concat(_)
Concat(bodies) ==
    IF bodies = << >> THEN << >> ELSE Docs(Head(bodies).body) \o Concat(Tail(bodies))

\* the documents of all bulk calls, in call order
SentDocs == Concat(BulkCalls)

\* syntactically valid JSON, not blank
WellFormed(k) == k \in {"obj", "null"}
Malformed(k) == k = "bad"

\* the lines i of lo+1..hi of the file that satisfy P, in file order
LinesWhere(lo, hi, P(_)) ==
    SelectSeq([j \in 1..(hi - lo) |-> lo + j], LAMBDA i : P(file[i]))

CeilDiv(n, b) == (n + b - 1) \div b

\* the one_time export ran to the end of the file
OneTimeDone ==
    EXPORT_MODE = "one_time" /\ f_open /\ pc = "finished" /\ exc = "none"

\* ---- C1
\* C1: one_time mode, a file of N well-formed non-blank JSON lines and no
\* malformed line, batch size B >= 1: when the run is over it has issued
\* exactly ceil(N / B) bulk calls, and the documents of these calls, in call
\* order, are the N lines in file order.
C1_OneTimeAllWellFormedSent ==
    (OneTimeDone /\ \A i \in 1..Len(file) : ~Malformed(file[i]))
    => LET lines == LinesWhere(0, Len(file), WellFormed)
       IN  /\ Len(BulkCalls) = CeilDiv(Len(lines), BATCH_SIZE)
           /\ SentDocs = lines

\* the documents of the bulk calls made in a phase, in call order
SentIn(phase) == Concat(SelectSeq(BulkCalls, LAMBDA c : c.phase = phase))

\* a line that parse_log_line turns into a record
Accepted(k) == parse_log_line(k, 1) # None

\* ---- C2
\* C2: combined mode, any interleaving of the writer's appends with the
\* reader's steps: the records handed to the sink in the initial phase, then
\* those handed in the tailing phase, then those still buffered are exactly
\* the records of the lines read so far, each once and in file order: no
\* line is in both the drain pass and the tail pass, none is skipped.
C2_CombinedEachLineOnce ==
    (EXPORT_MODE = "combined" /\ f_open)
    => /\ SentIn("initial") \o SentIn("tailing") \o Docs(bulk_data)
            = LinesWhere(0, f_pos, Accepted)
       /\ f_pos <= Len(file)
       /\ pc = "comb_drain" => SentIn("tailing") = << >>

\* two lines in the file at open, one appended later: the initial phase
\* hands over the two, the tailing phase exactly the new one
C2_Witness ==
    /\ EXPORT_MODE = "combined"
    /\ pc = "comb_tail"
    /\ BATCH_SIZE = 3
    /\ SentIn("initial") = << 1, 2 >>
    /\ SentIn("tailing") = << 3 >>
    /\ bulk_data = << >>

\* ---- C3
\* C3: continuous mode, timed: a non-empty buffer is delivered within one
\* flush interval of idle time, so while the loop runs the buffer is never
\* non-empty with flush_interval plus one poll elapsed since the last flush.
C3_ContinuousIdleFlush ==
    (EXPORT_MODE = "continuous" /\ pc = "cont_loop" /\ bulk_data # << >>)
    => now - last_flush < flush_interval + sleep_sec

\* ---- C4
\* C4: tailing phase of combined mode, timed.  Whenever the loop holds a
\* non-empty buffer, less than flush_interval has elapsed since the prior
\* flush, one pass of the loop takes at most one poll interval, and the pass
\* that brings the elapsed time to flush_interval sends the whole buffer: the
\* send comes no later than one poll interval after flush_interval elapsed.
C4_TailFlushWithinPoll ==
    [][ (EXPORT_MODE = "combined" /\ pc = "comb_tail" /\ bulk_data # << >>)
        => /\ now - last_flush < flush_interval
           /\ now' - now <= sleep_sec
           /\ (now' - last_flush >= flush_interval)
              => /\ Len(calls') = Len(calls) + 1
                 /\ calls'[Len(calls')].op = "bulk"
                 /\ calls'[Len(calls')].body = bulk_data
                 /\ bulk_data' = << >>
                 /\ last_flush' = now' ]_vars

\* the idle poll found flush_interval elapsed and sent a partial batch
C4_Witness ==
    /\ EXPORT_MODE = "combined"
    /\ pc = "comb_tail"
    /\ BulkCalls # << >>
    /\ BulkCalls[Len(BulkCalls)].why = "idle"
    /\ Len(Docs(BulkCalls[Len(BulkCalls)].body)) < BATCH_SIZE
    /\ last_flush = now
    /\ now >= flush_interval

\* ---- C6
ConfigMissing ==
    \/ LOG_FILE_PATH = NoValue
    \/ OPENSEARCH_INDEX = NoValue
    \/ EXPORT_MODE \notin Modes

\* C6: with the source path unset, the sink index unset or an unknown mode,
\* the program ends with a non-zero status, and it ends before the file is
\* opened and before any call is made on the sink client.
C6_ConfigErrorExitsBeforeIO ==
    (ConfigMissing /\ pc \in {"finished", "exited"})
    => /\ exit_status = "nonzero"
       /\ ~f_open
       /\ calls = << >>

\* ---- C7
\* C7: scenario 2 as the spec states it: exactly two flushes; the first is
\* count-triggered, right after line 2 is read, and holds lines 1 and 2; the
\* second is interval-triggered, holds line 3 only, and occurs about
\* flush_interval (give or take one poll) after line 3 arrived.
C7_Scenario2AsStated ==
    LET b == BulkCalls
        t2 == script[2]
        t3 == script[3]
    IN  /\ Len(b) <= 2
        /\ Len(b) >= 1 => b[1].why = "count" /\ Docs(b[1].body) = << 1, 2 >>
        /\ Len(b) = 1 => last_flush \in t2..(t2 + sleep_sec)
        /\ Len(b) = 2 =>
            /\ b[2].why = "interval"
            /\ Docs(b[2].body) = << 3 >>
            /\ last_flush \in (t3 + flush_interval - sleep_sec)..(t3 + flush_interval + sleep_sec)
        /\ f_pos >= 2 => Len(b) >= 1

\* C7 amended: when line 1 is read less than flush_interval after the start
\* (it arrives more than one poll before flush_interval has elapsed), the
\* second flush occurs as soon as line 3 is read, within one poll of its
\* arrival (flush_interval has long elapsed since flush 1).
C7_Scenario2Amended ==
    LET b == BulkCalls
        t1 == script[1]
        t2 == script[2]
        t3 == script[3]
    IN  t1 + sleep_sec < flush_interval
        => /\ Len(b) <= 2
           /\ Len(b) >= 1 => b[1].why = "count" /\ Docs(b[1].body) = << 1, 2 >>
           /\ Len(b) = 1 => last_flush \in t2..(t2 + sleep_sec)
           /\ Len(b) = 2 =>
               /\ b[2].why = "interval"
               /\ Docs(b[2].body) = << 3 >>
               /\ last_flush \in t3..(t3 + sleep_sec)
           /\ f_pos = 2 => Len(b) = 1
           /\ f_pos = 3 => Len(b) = 2

\* both flushes of the scenario have happened and the reader idles on
C7_Witness ==
    /\ script # << >>
    /\ Len(BulkCalls) = 2
    /\ f_pos = 3
    /\ now >= script[3] + flush_interval + sleep_sec

\* ---- C5
\* the buffered and sent documents, in the order they were handed over
Batched == SentDocs \o Docs(bulk_data)

\* the export has read a malformed line
MalformedRead == \E i \in (f_start + 1)..f_pos : Malformed(file[i])

\* C5: every mode: once a malformed line has been read, it is in no batch, it
\* has not advanced the processed-lines counter, the run goes on, and all
\* well-formed lines read before and after it are batched, in order.
C5_MalformedSkippedRestBatched ==
    (f_open /\ MalformedRead)
    => /\ \A n \in 1..Len(Batched) : ~Malformed(file[Batched[n]])
       /\ processed_lines <= Len(LinesWhere(f_start, f_pos, WellFormed))
       /\ pc # "exited"
       /\ Batched = LinesWhere(f_start, f_pos, WellFormed)

\* ---- C8
\* C8: no bulk call ever reaches the client with an empty body, in any mode:
\* not at the end of the file, not at the switch from draining to tailing,
\* not on an idle poll.
C8_NoEmptyBulk ==
    \A n \in 1..Len(calls) :
        calls[n].op = "bulk" => calls[n].body # << >> /\ Docs(calls[n].body) # << >>

\* combined mode read a file without any record to its end, went through the
\* drain-to-tail switch and through idle polls past the flush interval with
\* an empty buffer, and made no bulk call
C8_Witness ==
    /\ EXPORT_MODE = "combined"
    /\ pc = "comb_tail"
    /\ bulk_data = << >>
    /\ f_pos = Len(file)
    /\ f_pos >= 1
    /\ now - last_flush >= flush_interval + sleep_sec
    /\ BulkCalls = << >>

\* ---- C9
StrictlyIncreasing(q) == \A m, n \in 1..Len(q) : m < n => q[m] < q[n]

\* C9: every mode: the documents reach the sink in the order their lines
\* were read: across all bulk calls and the buffer, in hand-over order, the
\* line numbers strictly increase.
C9_ReadOrder == StrictlyIncreasing(Batched)

\* two bulk calls and a buffered record, three lines in all
C9_Witness ==
    /\ Len(BulkCalls) = 2
    /\ Len(SentDocs) = 2
    /\ Len(Docs(bulk_data)) = 1

\* ---- C10
\* the documents of the bulk calls after call n, and the buffer
After(n) == Concat(SubSeq(BulkCalls, n + 1, Len(BulkCalls))) \o Docs(bulk_data)

Raised(n) == BulkCalls[n].res = "raise"

\* C10: a bulk call that fails as a whole does not stop the run and its
\* records are not requeued: they are in no later call and not in the buffer,
\* the buffer is empty right after the attempted flush, and the program has
\* not exited with an error.
C10_FailedBatchDropped ==
    /\ [](\A n \in 1..Len(BulkCalls) : Raised(n) =>
            /\ \A d \in 1..Len(Docs(BulkCalls[n].body)) :
                 \A a \in 1..Len(After(n)) : After(n)[a] # Docs(BulkCalls[n].body)[d]
            /\ exit_status # "nonzero")
    /\ [][ (Len(calls') = Len(calls) + 1 /\ calls'[Len(calls')].op = "bulk"
              /\ calls'[Len(calls')].res = "raise")
           => /\ bulk_data' = << >>
              /\ pc' \in {pc, "finished", "comb_tail"}
              /\ processed_lines' \in {processed_lines, processed_lines + 1} ]_vars

\* a failed bulk call, then lines read later were sent in a call that succeeded
C10_Witness ==
    /\ Len(BulkCalls) = 2
    /\ Raised(1)
    /\ BulkCalls[2].res = "ok"
    /\ Tailing

\* ---- C11
\* C11: each of the three modes, the file missing at the open: the export
\* ends at once with FileNotFoundError caught; the file is never open, no
\* line is read or counted, nothing is buffered and no bulk call is made.
C11_MissingFileAborts ==
    (EXPORT_MODE \in Modes /\ ~file_exists)
    => /\ ~f_open
       /\ f_pos = 0
       /\ processed_lines = 0
       /\ bulk_data = << >>
       /\ BulkCalls = << >>
       /\ pc \in {"main", "test_connection", "check_index", "create_index",
                  "dispatch", EXPORT_MODE, "finished", "exited"}
       /\ (pc = "finished" /\ LOG_FILE_PATH \notin {NoValue, ""})
          => exc = "FileNotFoundError"

\* an export got past the main block, found no file and returned
C11_Witness ==
    /\ EXPORT_MODE \in Modes
    /\ exc = "FileNotFoundError"
    /\ pc = "finished"
    /\ Len(calls) >= 2

\* ---- C12
\* C12: one_time mode, a read error other than FileNotFoundError: the step
\* that ends the loop passes the whole unflushed buffer to the sink in one
\* bulk call (none when the buffer is empty) and the function returns; so
\* every record accumulated up to the error has been handed to the sink.
C12_OneTimeReadErrorFlushes ==
    /\ []((EXPORT_MODE = "one_time" /\ exc = "Exception")
            => /\ pc = "finished"
               /\ Len(SentDocs) = processed_lines
               /\ SentDocs = LinesWhere(0, f_pos, Accepted))
    /\ [][ (pc = "one_time_loop" /\ exc' = "Exception")
           => /\ pc' = "finished"
              /\ IF bulk_data = << >>
                 THEN calls' = calls
                 ELSE /\ Len(calls') = Len(calls) + 1
                      /\ calls'[Len(calls')].op = "bulk"
                      /\ calls'[Len(calls')].body = bulk_data ]_vars

\* the read failed after the first of two lines, with the record of line 1
\* buffered: it went out in the one bulk call of the run
C12_Witness ==
    /\ EXPORT_MODE = "one_time"
    /\ exc = "Exception"
    /\ f_pos = 1
    /\ Len(file) = 2
    /\ Len(BulkCalls) = 1
    /\ BulkCalls[1].why = "residual"
    /\ SentDocs = << 1 >>

\* ---- C13
\* C13: continuous mode.  The open puts the reader at the end of the file
\* as it is then; from there the reader moves one line at a time and sleeps
\* only when it has read every line of the file.  So the records handed to
\* the sink or buffered are exactly those of the lines appended after the
\* open and read so far, none of them a line that was there at the open,
\* and no appended line is passed over.
C13_ContinuousFromEnd ==
    /\ []((EXPORT_MODE = "continuous" /\ f_open)
            => /\ f_start <= f_pos /\ f_pos <= Len(file)
               /\ Batched = LinesWhere(f_start, f_pos, Accepted)
               /\ \A n \in 1..Len(Batched) : Batched[n] > f_start)
    /\ [][ EXPORT_MODE = "continuous"
           => /\ (pc = "continuous" /\ pc' = "cont_loop")
                 => f_start' = Len(file) /\ f_pos' = Len(file)
              /\ pc # "continuous" => f_start' = f_start
              /\ pc = "cont_loop" => f_pos' \in {f_pos, f_pos + 1}
              /\ (pc = "cont_loop" /\ now' # now) => f_pos = Len(file) ]_vars

\* two lines were in the file at the open, a third was appended: the third
\* is the only one handed to the sink
C13_Witness ==
    /\ EXPORT_MODE = "continuous"
    /\ pc = "cont_loop"
    /\ f_start = 2
    /\ Accepted(file[1]) /\ Accepted(file[2])
    /\ f_pos = 3
    /\ SentDocs = << 3 >>

\* ---- C14
\* the step from the drain loop to the tail loop of combined mode
Switch == pc = "comb_residual" /\ pc' = "comb_tail"

\* C14 as stated: the switch from draining to tailing leaves the buffer as
\* it is and makes no send call for it.
C14_SwitchKeepsBuffer ==
    [][ Switch => bulk_data' = bulk_data /\ calls' = calls ]_vars

\* C14 amended: one counter and one buffer serve both phases (the counter is
\* the number of records of the initial phase, of the tailing phase and of
\* the buffer together), and the switch keeps the counter and the file
\* position but flushes the partial batch: a non-empty buffer goes out whole
\* in one bulk call and the buffer is empty when tailing starts.
C14_SwitchFlushesBuffer ==
    /\ []((EXPORT_MODE = "combined" /\ f_open)
            => processed_lines
                 = Len(SentIn("initial")) + Len(SentIn("tailing")) + Len(Docs(bulk_data)))
    /\ [][ Switch
           => /\ processed_lines' = processed_lines
              /\ f_pos' = f_pos
              /\ bulk_data' = << >>
              /\ IF bulk_data = << >>
                 THEN calls' = calls
                 ELSE /\ Len(calls') = Len(calls) + 1
                      /\ calls'[Len(calls')].op = "bulk"
                      /\ calls'[Len(calls')].body = bulk_data
                      /\ calls'[Len(calls')].why = "residual" ]_vars

\* the drain ended with a partial batch, the switch sent it, and the first
\* record of the tailing phase completed the count: a batch of one
C14_Witness ==
    /\ EXPORT_MODE = "combined"
    /\ pc = "comb_tail"
    /\ BATCH_SIZE = 3
    /\ Len(BulkCalls) = 2
    /\ BulkCalls[1].why = "residual" /\ Docs(BulkCalls[1].body) = << 1, 2 >>
    /\ BulkCalls[2].why = "count" /\ Docs(BulkCalls[2].body) = << 3 >>

\* ---- C15
\* the documents of each call of a sequence of bulk calls
Bodies(cs) == [n \in 1..Len(cs) |-> Docs(cs[n].body)]

\* what export_log_to_opensearch sends for the records q: a batch at every
\* multiple of b, then the rest
RECURSIVE Chunks(_, _)
Chunks(q, b) ==
    IF q = << >> THEN << >>
    ELSE IF Len(q) <= b THEN << q >>
    ELSE << SubSeq(q, 1, b) >> \o Chunks(SubSeq(q, b + 1, Len(q)), b)

InitialCalls == SelectSeq(BulkCalls, LAMBDA c : c.phase = "initial")

\* C15: the batches of the drain phase of combined mode are those one_time
\* mode sends for the same lines, whatever the timing: one_time sends the
\* records in batches of BATCH_SIZE and then the rest, and so does the drain
\* phase, with the same boundaries.
C15_DrainAsOneTime ==
    /\ OneTimeDone => Bodies(BulkCalls) = Chunks(SentDocs, BATCH_SIZE)
    /\ (EXPORT_MODE = "combined" /\ pc = "comb_tail")
       => Bodies(InitialCalls) = Chunks(SentIn("initial"), BATCH_SIZE)

\* ---- C16
\* a step of the continuous loop or of one of the two loops of combined
\* mode that adds a record
RecordAdded ==
    /\ pc \in {"cont_loop", "comb_drain", "comb_tail"}
    /\ processed_lines' = processed_lines + 1

\* the step made exactly one bulk call, with the buffer and the new record
Flushed(why) ==
    /\ Len(calls') = Len(calls) + 1
    /\ calls'[Len(calls')].op = "bulk"
    /\ calls'[Len(calls')].why = why
    /\ Docs(calls'[Len(calls')].body) = Docs(bulk_data) \o << f_pos' >>
    /\ bulk_data' = << >>
    /\ last_flush' = now

\* C16: the flush check after a record is added, in continuous mode and in
\* both phases of combined mode: if the running total of records is a
\* multiple of the batch size, a count flush, whatever the elapsed time;
\* otherwise, if flush_interval or more has elapsed since the last flush, an
\* interval flush (the buffer holds the new record, so it is not empty);
\* otherwise no call, and the record stays in the buffer.  A flush is
\* exactly one bulk call.
C16_FlushDecision ==
    [][ RecordAdded
        => IF processed_lines' % BATCH_SIZE = 0
           THEN Flushed("count")
           ELSE IF now - last_flush >= flush_interval
           THEN Flushed("interval")
           ELSE /\ calls' = calls
                /\ Docs(bulk_data') = Docs(bulk_data) \o << f_pos' >>
                /\ last_flush' = last_flush ]_vars

\* batch size 2: the first record went out on the interval, the second on
\* the count, the third stays in the buffer
C16_Witness ==
    /\ BATCH_SIZE = 2
    /\ Len(BulkCalls) = 2
    /\ BulkCalls[1].why = "interval" /\ Docs(BulkCalls[1].body) = << 1 >>
    /\ BulkCalls[2].why = "count" /\ Docs(BulkCalls[2].body) = << 2 >>
    /\ Docs(bulk_data) = << 3 >>
    /\ pc \in {"cont_loop", "comb_tail"}

\* ---- C17
\* C17: continuous and combined mode, a read error in one of the loops: the
\* step that ends the loop makes no call on the sink and the function
\* returns; no step follows, so the records buffered at that moment stay
\* where they were and are in no bulk call.
C17_TailReadErrorNoFlush ==
    /\ []((EXPORT_MODE \in {"continuous", "combined"} /\ exc = "Exception")
            => /\ pc = "finished"
               /\ \A d \in 1..Len(Docs(bulk_data)) :
                     \A n \in 1..Len(SentDocs) : SentDocs[n] # Docs(bulk_data)[d]
               /\ Len(SentDocs) = processed_lines - Len(Docs(bulk_data)))
    /\ [][ /\ (pc \in {"cont_loop", "comb_drain", "comb_tail"} /\ exc' = "Exception")
              => calls' = calls /\ bulk_data' = bulk_data /\ pc' = "finished"
           /\ exc = "Exception" => calls' = calls ]_vars

\* combined mode: the drain sent line 1 at the switch, line 2 was appended
\* and buffered, then the read failed: line 2 is in no bulk call
C17_Witness ==
    /\ EXPORT_MODE = "combined"
    /\ exc = "Exception"
    /\ pc = "finished"
    /\ Len(BulkCalls) = 1
    /\ BulkCalls[1].why = "residual"
    /\ SentDocs = << 1 >>
    /\ Docs(bulk_data) = << 2 >>

\* ---- C18
\* the diagnostic log entries that carry line i
Logged(i) == Len(SelectSeq(diagnostics, LAMBDA j : j = i))

\* the non-blank lines the export has read
NonBlankRead == {i \in (f_start + 1)..f_pos : ~StripsToEmpty(file[i])}

InBatch(i) == \E n \in 1..Len(Batched) : Batched[n] = i

\* C18: of the non-blank lines read, those dropped are exactly those that
\* are not syntactically valid JSON; every valid one is a record, counted
\* and in a batch; every dropped one has exactly one diagnostic log entry.
C18_DroppedIffInvalid ==
    f_open
    => /\ \A i \in NonBlankRead :
            /\ ~InBatch(i) <=> ~WellFormed(file[i])
            /\ ~InBatch(i) => Logged(i) = 1
       /\ processed_lines = Cardinality({i \in NonBlankRead : WellFormed(file[i])})

\* ---- C19
\* C19: all modes: between two steps of a loop the buffer holds at most
\* processed_lines mod BATCH_SIZE records, hence at most BATCH_SIZE - 1, and
\* every bulk call, whatever its trigger, carries at least one and at most
\* BATCH_SIZE records.
C19_BufferBelowBatchSize ==
    /\ Len(Docs(bulk_data)) <= processed_lines % BATCH_SIZE
    /\ Len(Docs(bulk_data)) <= BATCH_SIZE - 1
    /\ \A n \in 1..Len(BulkCalls) :
            /\ Len(Docs(BulkCalls[n].body)) >= 1
            /\ Len(Docs(BulkCalls[n].body)) <= BATCH_SIZE

\* batch size 2: a full batch was sent on the count and the buffer holds
\* one record, the most it can hold between two steps
C19_Witness ==
    /\ BATCH_SIZE = 2
    /\ processed_lines = 3
    /\ Len(BulkCalls) = 1
    /\ BulkCalls[1].why = "count"
    /\ Len(Docs(BulkCalls[1].body)) = BATCH_SIZE
    /\ Len(Docs(bulk_data)) = BATCH_SIZE - 1

\* ---- C20
\* a bulk body is a sequence of pairs: the action entry, then a document
Paired(body) ==
    /\ Len(body) = 2 * Len(Docs(body))
    /\ \A j \in 1..Len(Docs(body)) :
            body[2 * j - 1] = ActionEntry /\ body[2 * j] # ActionEntry

\* C20: all modes, between any two steps: processed_lines is the number of
\* records handed to bulk calls plus the number of records in the buffer;
\* no record is in two bulk calls, or in a bulk call and in the buffer; and
\* the buffer, like every bulk body, holds two entries for each record, its
\* action and its document.
C20_Conservation ==
    /\ processed_lines = Len(SentDocs) + Len(Docs(bulk_data))
    /\ \A m, n \in 1..Len(Batched) : m # n => Batched[m] # Batched[n]
    /\ Paired(bulk_data)
    /\ \A n \in 1..Len(BulkCalls) : Paired(BulkCalls[n].body)

\* three lines read, the second dropped: the record of line 1 went out
\* alone, that of line 3 is in the buffer with its action entry
C20_Witness ==
    /\ f_pos = 3
    /\ processed_lines = 2
    /\ SentDocs = << 1 >>
    /\ bulk_data = << ActionEntry, 3 >>

====
